---------------------------- MODULE Spec2Model ----------------------------
(***************************************************************************)
(* Constraint-resolution core of the physics engine:                       *)
(*   src/src/constraints/collision/ContactManifold.js                      *)
(*       ContactManifoldTable, Manifold, Contact                           *)
(*   src/src/constraints/Distance.js                                       *)
(*       Distance                                                          *)
(*                                                                         *)
(* Numbers.  JavaScript numbers are modelled as fixed-point integers with  *)
(* ONE standing for 1.0; products and quotients round towards zero, which  *)
(* (like IEEE rounding) commutes with negation.  NaN and Infinity are not  *)
(* represented: the inputs are chosen so that no division by zero occurs   *)
(* (no pair of two immovable bodies, no coincident Distance end points),   *)
(* and `undefined` fields are kept apart from numbers (see Undefined).     *)
(*                                                                         *)
(* Specifications.                                                         *)
(*   Spec          the ContactManifoldTable over three bodies in a row     *)
(*                 (two touching pairs, one contact point each),           *)
(*                 registerContact in both argument orders, body motion    *)
(*                 and ContactManifoldTable.update.                        *)
(*   SpecManifold  the same operations over one pair with more contact     *)
(*                 points and finer body motion, so that one Manifold      *)
(*                 fills up, evicts and drifts.                            *)
(*   SpecSolver    one constraint object (a pooled Contact or a Distance)  *)
(*                 driven through reset / update / resolve / free with     *)
(*                 the bodies' velocities set by the environment.          *)
(*   SpecPool      the table over two pairs with the pooled Manifold,      *)
(*                 Contact and CollisionData objects told apart, so that   *)
(*                 every request and free of the ObjectManager is seen.    *)
(***************************************************************************)
EXTENDS Integers, Sequences, FiniteSets, TLC

(***************************************************************************)
(* Bounds of the model                                                     *)
(***************************************************************************)
\* SpecManifold: contact points of the pair are numbered 0..ManifoldPoints.
ManifoldPoints == 4
\* SpecSolver: resolve calls between two update calls of one constraint.
MaxResolves == 2
\* SpecPool: contact points of the pair (1, 2) are numbered 0..PoolPoints.
PoolPoints == 1

(***************************************************************************)
(* Fixed-point numbers                                                     *)
(***************************************************************************)
ONE == 10 * 10

Abs(x) == IF x < 0 THEN -x ELSE x
Min(x, y) == IF x < y THEN x ELSE y
Max(x, y) == IF x > y THEN x ELSE y

\* a / b on integers, rounded towards zero.
TruncDiv(a, b) ==
    IF (a >= 0) = (b > 0) THEN Abs(a) \div Abs(b) ELSE -(Abs(a) \div Abs(b))

\* x * y and x / y of two fixed-point numbers.
FMul(x, y) == TruncDiv(x * y, ONE)
FDiv(x, y) == TruncDiv(x * ONE, y)

RECURSIVE SqrtSearch(_, _, _)
SqrtSearch(n, lo, hi) ==
    IF lo >= hi THEN lo
    ELSE LET mid == (lo + hi + 1) \div 2
         IN  IF mid * mid <= n THEN SqrtSearch(n, mid, hi)
             ELSE SqrtSearch(n, lo, mid - 1)

\* floor(sqrt(n)) for 0 <= n < 2^31.
ISqrt(n) == SqrtSearch(n, 0, Min(n, 46340))

(***************************************************************************)
(* Vec3 (famous-math): the operations the two files call.  A vector is a   *)
(* triple of fixed-point numbers.                                          *)
(***************************************************************************)
ZeroVec == <<0, 0, 0>>
VecAdd(u, v) == <<u[1] + v[1], u[2] + v[2], u[3] + v[3]>>
VecSubtract(u, v) == <<u[1] - v[1], u[2] - v[2], u[3] - v[3]>>
VecInvert(u) == <<-u[1], -u[2], -u[3]>>
VecScale(u, s) == <<FMul(u[1], s), FMul(u[2], s), FMul(u[3], s)>>
VecDot(u, v) == FMul(u[1], v[1]) + FMul(u[2], v[2]) + FMul(u[3], v[3])
VecCross(u, v) ==
    << FMul(u[2], v[3]) - FMul(u[3], v[2]),
       FMul(u[3], v[1]) - FMul(u[1], v[3]),
       FMul(u[1], v[2]) - FMul(u[2], v[1]) >>
\* sqrt(x^2 + y^2 + z^2): the squares are taken exactly, so that for a
\* whole threshold t, VecLength(u) >= t iff x^2 + y^2 + z^2 >= t^2.
VecLength(u) == ISqrt(u[1] * u[1] + u[2] * u[2] + u[3] * u[3])
\* Vec3.prototype.normalize leaves the zero vector as it is (len || 1).
VecNormalize(u) ==
    LET len == VecLength(u)
    IN  IF len = 0 THEN u
        ELSE <<FDiv(u[1], len), FDiv(u[2], len), FDiv(u[3], len)>>

(***************************************************************************)
(* JavaScript values                                                       *)
(***************************************************************************)
\* null / undefined, and a present value v as <<v>>.
NULL == <<>>
Some(v) == <<v>>
Val(s) == s[1]
\* A field read before any assignment.
Undefined == <<>>

\* A JavaScript array as a function on 0 .. length-1.
EmptyArray == [i \in {} |-> NULL]
ArrayLength(arr) == Cardinality(DOMAIN arr)
ArrayGet(arr, i) == IF i \in DOMAIN arr THEN arr[i] ELSE NULL
\* arr[index] = v : the array grows to hold index, holes read as undefined.
ArraySet(arr, index, v) ==
    [i \in 0 .. Max(ArrayLength(arr) - 1, index) |->
        IF i = index THEN v ELSE ArrayGet(arr, i)]

(***************************************************************************)
(* The bodies (Body collaborator): three spheres in a row on the x axis,   *)
(* neighbours overlapping by 2.  The identifier is the body's _ID.         *)
(***************************************************************************)
Bodies == {1, 2, 3}
Radius == 11 * ONE
Home(b) == <<(b - 1) * 20 * ONE, 0, 0>>

\* inverseMass, inverseInertia (a multiple of the identity), restitution,
\* friction of each body; body 3 is immovable.
InverseMass(b) == CASE b = 1 -> ONE [] b = 2 -> ONE \div 2 [] OTHER -> 0
InverseInertia(b) == CASE b = 1 -> 0 [] b = 2 -> ONE \div 4 [] OTHER -> 0
Restitution(b) == CASE b = 1 -> ONE \div 2 [] b = 2 -> ONE [] OTHER -> 0
Friction(b) == CASE b = 1 -> ONE \div 2 [] b = 2 -> ONE [] OTHER -> 0
\* Mat33.vectorMultiply for a multiple of the identity.
InertiaMultiply(b, v) == VecScale(v, InverseInertia(b))

VARIABLES
    position,        \* body -> position
    velocity,        \* body -> linear velocity
    angularVelocity, \* body -> angular velocity
    manifolds,       \* ContactManifoldTable.manifolds
    collisionMatrix, \* ContactManifoldTable.collisionMatrix
    IDPool,          \* ContactManifoldTable._IDPool
    events,          \* the events.trigger calls of the last operation
    started,         \* pair -> the pair's last notification was collision:start
    lastOp,          \* the name of the last operation
    contact,         \* SpecSolver: the Contact object
    contactState,    \* SpecSolver: "absent" | "none" | "live" | "free"
    distance,        \* SpecSolver: the Distance object
    distanceState,   \* SpecSolver: "absent" | "constructed" | "updated" | "thrown"
    resolvesLeft,    \* SpecSolver: resolve calls left before the next update
    applied,         \* the applyImpulse / applyAngularImpulse calls of the last operation
    resolved,        \* what the resolve calls since the last update applied, summed
    recency,         \* pair -> the occupied slots of its manifold, oldest contact first
    pool             \* the ObjectManager pools and the objects the table's references hold

vars == << position, velocity, angularVelocity, manifolds, collisionMatrix,
           IDPool, events, started, lastOp, contact, contactState, distance,
           distanceState, resolvesLeft, applied, resolved, recency, pool >>

bodyVars == << position, velocity, angularVelocity >>
tableVars == << manifolds, collisionMatrix, IDPool, events, started, recency,
               pool >>
solverVars == << contact, contactState, distance, distanceState, resolvesLeft,
                applied, resolved >>

\* The calls one operation makes on the two bodies: the argument of
\* bodyA.applyImpulse, bodyB.applyImpulse, bodyA.applyAngularImpulse and
\* bodyB.applyAngularImpulse, NULL where the call is not made.
NoCalls == [ linA |-> NULL, linB |-> NULL, angA |-> NULL, angB |-> NULL ]

\* The observer of the bodies: the sum of the impulses, per call, that the
\* resolve calls since the last update have passed to the two bodies, and
\* the sum of the lambdas of those resolve calls of a Distance.
NoneResolved ==
    [ linA |-> ZeroVec, linB |-> ZeroVec, angA |-> ZeroVec, angB |-> ZeroVec,
      lambda |-> 0 ]

Observed(sum, calls, lambda) ==
    IF calls = NoCalls THEN sum
    ELSE [ linA |-> VecAdd(sum.linA, Val(calls.linA)),
           linB |-> VecAdd(sum.linB, Val(calls.linB)),
           angA |-> IF calls.angA = NULL THEN sum.angA
                    ELSE VecAdd(sum.angA, Val(calls.angA)),
           angB |-> IF calls.angB = NULL THEN sum.angB
                    ELSE VecAdd(sum.angB, Val(calls.angB)),
           lambda |-> sum.lambda + lambda ]

(***************************************************************************)
(* CollisionData (collision-detection collaborator).  Contact point k of   *)
(* first body a and second body b, detected while both are at home: the    *)
(* normal points from a to b, the local offsets reach into the other body  *)
(* (by 1 from each side at even points, by 3 at odd points), successive    *)
(* points lie THRESHOLD apart sideways, and the world points are           *)
(* position + local offset at detection time.                              *)
(***************************************************************************)
THRESHOLD == 10 * ONE

Side(a, b) == IF Home(a)[1] < Home(b)[1] THEN 1 ELSE -1

Reach(k) == Radius + (k % 2) * 2 * ONE

CollisionData(a, b, k) ==
    LET localA == << Side(a, b) * Reach(k), k * THRESHOLD, 0 >>
        localB == << -Side(a, b) * Reach(k), k * THRESHOLD, 0 >>
    IN  [ normal        |-> << Side(a, b) * ONE, 0, 0 >>,
          localContactA |-> localA,
          localContactB |-> localB,
          worldContactA |-> VecAdd(Home(a), localA),
          worldContactB |-> VecAdd(Home(b), localB),
          penetration   |-> 2 * Reach(k) - VecLength(VecSubtract(Home(b), Home(a))) ]

\* The detector reports a pair only while the two spheres overlap.
Overlapping(a, b) ==
    VecLength(VecSubtract(position[b], position[a])) < 2 * Radius

(***************************************************************************)
(* Manifold                                                                *)
(***************************************************************************)
\* Manifold.prototype.reset (and the constructor, which assigns the same).
ManifoldReset(lowID, highID, bodyA, bodyB) ==
    [ lowID       |-> lowID,
      highID      |-> highID,
      contacts    |-> EmptyArray,
      numContacts |-> 0,
      bodyA       |-> bodyA,
      bodyB       |-> bodyB,
      lru         |-> 0 ]

\* What Contact.prototype.reset stores from its arguments.  The table
\* operations read nothing else of a Contact; its solver fields are
\* modelled in SpecSolver.
ContactOf(bodyA, bodyB, collisionData) ==
    [ bodyA |-> bodyA, bodyB |-> bodyB, data |-> collisionData ]

\* Manifold.prototype.removeContact
RemoveContact(m, index) ==
    [ m EXCEPT !.contacts = ArraySet(@, index, NULL),
               !.numContacts = @ - 1 ]

\* Mutant of AddContact: the slot under the cursor is overwritten without
\* removeContact.
AddContactNoEvict(m, bodyA, bodyB, collisionData) ==
    [ m EXCEPT
        !.contacts = ArraySet(@, m.lru, Some(ContactOf(bodyA, bodyB, collisionData))),
        !.lru = (m.lru + 1) % 4,
        !.numContacts = @ + 1 ]

AddContactIndexFirstFree(m) ==
    IF \E j \in 0 .. 3 : ArrayGet(m.contacts, j) = NULL
    THEN CHOOSE j \in 0 .. 3 :
             /\ ArrayGet(m.contacts, j) = NULL
             /\ \A h \in 0 .. (j - 1) : ArrayGet(m.contacts, h) # NULL
    ELSE m.lru

\* var index = this.lru: the slot Manifold.prototype.addContact writes.
AddContactIndex(m) == m.lru

\* Manifold.prototype.addContact
AddContact(m, bodyA, bodyB, collisionData) ==
    LET index == AddContactIndex(m)
        m1 == IF ArrayGet(m.contacts, index) # NULL
              THEN RemoveContact(m, index) ELSE m
    IN  [ m1 EXCEPT
            !.contacts = ArraySet(@, index, Some(ContactOf(bodyA, bodyB, collisionData))),
            !.lru = (m.lru + 1) % 4,
            !.numContacts = @ + 1 ]

\* The test of Manifold.prototype.contains on one live contact.
NearDuplicate(c, collisionData) ==
    LET distA == VecLength(VecSubtract(c.data.worldContactA, collisionData.worldContactA))
        distB == VecLength(VecSubtract(c.data.worldContactB, collisionData.worldContactB))
    IN  distA < THRESHOLD \/ distB < THRESHOLD

\* Manifold.prototype.contains: the loop from index i on.
RECURSIVE ContainsFrom(_, _, _)
ContainsFrom(m, collisionData, i) ==
    IF i >= ArrayLength(m.contacts) THEN [ manifold |-> m, found |-> FALSE ]
    ELSE IF m.contacts[i] = NULL THEN ContainsFrom(m, collisionData, i + 1)
    ELSE IF NearDuplicate(Val(m.contacts[i]), collisionData)
         THEN [ manifold |-> RemoveContact(m, i), found |-> TRUE ]
         ELSE ContainsFrom(m, collisionData, i + 1)

Contains(m, collisionData) == ContainsFrom(m, collisionData, 0)

\* Mutant of Invalidated: the drift of body A is tested twice, that of
\* body B never.
InvalidatedTestingATwice(m, c) ==
    LET wA == VecAdd(position[m.bodyA], c.data.localContactA)
        wB == VecAdd(position[m.bodyB], c.data.localContactB)
        notPenetrating == VecDot(VecSubtract(wB, wA), c.data.normal) > 0
        driftA == VecSubtract(c.data.worldContactA, wA)
    IN  \/ VecLength(driftA) >= THRESHOLD
        \/ VecLength(driftA) >= THRESHOLD
        \/ notPenetrating

\* The test of Manifold.prototype.update on one live contact: the world
\* points are recomputed from the positions of the Manifold's bodies.
Invalidated(m, c) ==
    LET wA == VecAdd(position[m.bodyA], c.data.localContactA)
        wB == VecAdd(position[m.bodyB], c.data.localContactB)
        notPenetrating == VecDot(VecSubtract(wB, wA), c.data.normal) > 0
        driftA == VecSubtract(c.data.worldContactA, wA)
        driftB == VecSubtract(c.data.worldContactB, wB)
    IN  \/ VecLength(driftA) >= THRESHOLD
        \/ VecLength(driftB) >= THRESHOLD
        \/ notPenetrating

\* Manifold.prototype.update: the loop from index i on, then the result.
RECURSIVE ManifoldUpdateFrom(_, _)
ManifoldUpdateFrom(m, i) ==
    IF i >= ArrayLength(m.contacts)
    THEN [ manifold |-> m, persists |-> (m.numContacts # 0) ]
    ELSE IF m.contacts[i] = NULL THEN ManifoldUpdateFrom(m, i + 1)
    ELSE IF Invalidated(m, Val(m.contacts[i]))
         THEN ManifoldUpdateFrom(RemoveContact(m, i), i + 1)
         ELSE ManifoldUpdateFrom(m, i + 1)

ManifoldUpdate(m) == ManifoldUpdateFrom(m, 0)

(***************************************************************************)
(* ContactManifoldTable.  A table value t holds the three fields of the    *)
(* object and the notifications triggered so far by the running call.      *)
(* collisionMatrix[low] is NULL until the row object is created; an entry  *)
(* of a row is NULL (undefined or null: the code tests only `== null`) or  *)
(* Some(index).                                                            *)
(***************************************************************************)
Pairs == { p \in Bodies \X Bodies : p[1] < p[2] }

Table ==
    [ manifolds |-> manifolds, collisionMatrix |-> collisionMatrix,
      IDPool |-> IDPool, events |-> << >> ]

MatrixGet(cm, lowID, highID) ==
    IF cm[lowID] = NULL THEN NULL ELSE Val(cm[lowID])[highID]

Event(name, body, m) ==
    [ name |-> name, body |-> body, lowID |-> m.lowID, highID |-> m.highID ]

\* Mutant of AddManifoldIndex: the free-list is never consulted.
AddManifoldIndexAlwaysGrowing(t) == ArrayLength(t.manifolds)

\* ContactManifoldTable.prototype.addManifold; the new manifold is at
\* t.manifolds[index] of the result.
AddManifoldIndex(t) ==
    IF Len(t.IDPool) # 0 THEN t.IDPool[Len(t.IDPool)] ELSE ArrayLength(t.manifolds)

AddManifold(t, lowID, highID, bodyA, bodyB) ==
    LET row == IF t.collisionMatrix[lowID] = NULL
               THEN [ h \in Bodies |-> NULL ] ELSE Val(t.collisionMatrix[lowID])
        index == AddManifoldIndex(t)
    IN  [ t EXCEPT
            !.IDPool = IF Len(@) # 0 THEN SubSeq(@, 1, Len(@) - 1) ELSE @,
            !.collisionMatrix[lowID] = Some([ row EXCEPT ![highID] = Some(index) ]),
            !.manifolds = ArraySet(@, index, Some(ManifoldReset(lowID, highID, bodyA, bodyB))) ]

\* Mutant of RemoveManifold: the collisionMatrix entry is left in place.
RemoveManifoldKeepingEntry(t, manifold, index) ==
    [ t EXCEPT
        !.manifolds = ArraySet(@, index, NULL),
        !.IDPool = Append(@, index) ]

\* ContactManifoldTable.prototype.removeManifold
RemoveManifold(t, manifold, index) ==
    [ t EXCEPT
        !.manifolds = ArraySet(@, index, NULL),
        !.collisionMatrix[manifold.lowID] =
            Some([ Val(@) EXCEPT ![manifold.highID] = NULL ]),
        !.IDPool = Append(@, index) ]

\* ContactManifoldTable.prototype.update: the loop from index i on; len is
\* the length read before the loop.
RECURSIVE TableUpdateFrom(_, _, _)
TableUpdateFrom(t, i, len) ==
    IF i >= len THEN t
    ELSE IF t.manifolds[i] = NULL THEN TableUpdateFrom(t, i + 1, len)
    ELSE LET r == ManifoldUpdate(Val(t.manifolds[i]))
             m == r.manifold
         IN  IF r.persists
             THEN TableUpdateFrom([ t EXCEPT !.manifolds[i] = Some(m) ], i + 1, len)
             ELSE TableUpdateFrom(
                    [ RemoveManifold(t, m, i) EXCEPT
                        !.events = @ \o << Event("collision:end", m.bodyA, m),
                                           Event("collision:end", m.bodyB, m) >> ],
                    i + 1, len)

\* Mutant of RegisterContactOn: the pair is looked up as (bodyA, bodyB)
\* without ordering the identifiers.
RegisterContactUnordered(t, bodyA, bodyB, collisionData) ==
    IF MatrixGet(t.collisionMatrix, bodyA, bodyB) = NULL
    THEN LET index == AddManifoldIndex(t)
             t1 == AddManifold(t, bodyA, bodyB, bodyA, bodyB)
             m == AddContact(Val(t1.manifolds[index]), bodyA, bodyB, collisionData)
         IN  [ t1 EXCEPT
                 !.manifolds[index] = Some(m),
                 !.events = @ \o << Event("collision:start", bodyA, m),
                                    Event("collision:start", bodyB, m) >> ]
    ELSE LET index == Val(MatrixGet(t.collisionMatrix, bodyA, bodyB))
             m0 == Val(t.manifolds[index])
             m1 == Contains(m0, collisionData).manifold
             m == AddContact(m1, bodyA, bodyB, collisionData)
         IN  [ t EXCEPT !.manifolds[index] = Some(m) ]

\* Mutant of RegisterContactOn: collision:start is triggered for every
\* registered contact, also on an existing manifold.
RegisterContactAlwaysStarting(t, bodyA, bodyB, collisionData) ==
    LET lowID == IF bodyA < bodyB THEN bodyA ELSE bodyB
        highID == IF bodyA < bodyB THEN bodyB ELSE bodyA
        fresh == MatrixGet(t.collisionMatrix, lowID, highID) = NULL
        t1 == IF fresh THEN AddManifold(t, lowID, highID, bodyA, bodyB) ELSE t
        index == Val(MatrixGet(t1.collisionMatrix, lowID, highID))
        m0 == Val(t1.manifolds[index])
        m1 == IF fresh THEN m0 ELSE Contains(m0, collisionData).manifold
        m == AddContact(m1, bodyA, bodyB, collisionData)
    IN  [ t1 EXCEPT
            !.manifolds[index] = Some(m),
            !.events = @ \o << Event("collision:start", bodyA, m),
                               Event("collision:start", bodyB, m) >> ]

\* ContactManifoldTable.prototype.registerContact
RegisterContactOn(t, bodyA, bodyB, collisionData) ==
    LET lowID == IF bodyA < bodyB THEN bodyA ELSE bodyB
        highID == IF bodyA < bodyB THEN bodyB ELSE bodyA
    IN  IF MatrixGet(t.collisionMatrix, lowID, highID) = NULL
        THEN LET index == AddManifoldIndex(t)
                 t1 == AddManifold(t, lowID, highID, bodyA, bodyB)
                 m == AddContact(Val(t1.manifolds[index]), bodyA, bodyB, collisionData)
             IN  [ t1 EXCEPT
                     !.manifolds[index] = Some(m),
                     !.events = @ \o << Event("collision:start", bodyA, m),
                                        Event("collision:start", bodyB, m) >> ]
        ELSE LET index == Val(MatrixGet(t.collisionMatrix, lowID, highID))
                 m0 == Val(t.manifolds[index])
                 m1 == Contains(m0, collisionData).manifold
                 m == AddContact(m1, bodyA, bodyB, collisionData)
             IN  [ t EXCEPT !.manifolds[index] = Some(m) ]

(***************************************************************************)
(* Observer: per pair, whether its last notification was collision:start.  *)
(***************************************************************************)
RECURSIVE Notified(_, _)
Notified(st, evs) ==
    IF evs = << >> THEN st
    ELSE Notified([ st EXCEPT ![<< Head(evs).lowID, Head(evs).highID >>] =
                                (Head(evs).name = "collision:start") ],
                  Tail(evs))

Commit(t) ==
    /\ manifolds' = t.manifolds
    /\ collisionMatrix' = t.collisionMatrix
    /\ IDPool' = t.IDPool
    /\ events' = t.events
    /\ started' = Notified(started, t.events)

(***************************************************************************)
(* ObjectManager (pooling collaborator) and object identity.  The table    *)
(* operations above work on the values of the objects; the observer below  *)
(* follows which object each reference holds.  Objects are numbered per    *)
(* type in the order of their construction.  An observer value g holds     *)
(*   free[type]   the pool of the type, last freed last,                   *)
(*   made[type]   the number of objects constructed so far,                *)
(*   manifolds    index -> the Manifold object at table.manifolds[index],  *)
(*   contacts     Manifold object -> slot -> the Contact object in its     *)
(*                contacts array (0: null or never written),               *)
(*   data         Contact object -> the CollisionData object in its data   *)
(*                field (0: null).                                         *)
(***************************************************************************)
PoolTypes == { "Manifold", "Contact", "CollisionData" }

NoObjects ==
    [ free      |-> [ type \in PoolTypes |-> << >> ],
      made      |-> [ type \in PoolTypes |-> 0 ],
      manifolds |-> EmptyArray,
      contacts  |-> << >>,
      data      |-> << >> ]

\* seq[id] = v for an object that may just have been constructed.
FieldSet(seq, id, v) ==
    [ j \in 1 .. Max(Len(seq), id) |->
        IF j = id THEN v ELSE IF j <= Len(seq) THEN seq[j] ELSE 0 ]

\* ObjectManager.request<Type>(): the object returned, the one freed last
\* if the pool holds any, a newly constructed one otherwise.
Requested(g, type) ==
    IF Len(g.free[type]) # 0 THEN g.free[type][Len(g.free[type])]
    ELSE g.made[type] + 1

\* ObjectManager.request<Type>(): the pools after the call.
Request(g, type) ==
    IF Len(g.free[type]) # 0
    THEN [ g EXCEPT !.free[type] = SubSeq(@, 1, Len(@) - 1) ]
    ELSE [ g EXCEPT !.made[type] = @ + 1 ]

\* Mutant of Free: the object is pushed although the pool already holds it.
FreeTwice(g, type, id) ==
    [ g EXCEPT !.free[type] = Append(Append(@, id), id) ]

\* ObjectManager.free<Type>(object)
Free(g, type, id) ==
    [ g EXCEPT !.free[type] = Append(@, id) ]

\* Manifold.prototype.removeContact on the objects: the slot is nulled, the
\* CollisionData is freed, contact.data is nulled, the Contact is freed.
RemoveContactObject(g, manifold, index) ==
    LET contactObject == g.contacts[manifold][index + 1]
        g1 == [ g EXCEPT !.contacts[manifold][index + 1] = 0 ]
        g2 == Free(g1, "CollisionData", g1.data[contactObject])
        g3 == [ g2 EXCEPT !.data[contactObject] = 0 ]
    IN  Free(g3, "Contact", contactObject)

\* Manifold.prototype.addContact on the objects, writing slot index with
\* the CollisionData object collisionData.
AddContactObject(g, manifold, index, collisionData) ==
    LET g1 == IF g.contacts[manifold][index + 1] # 0
              THEN RemoveContactObject(g, manifold, index) ELSE g
        contactObject == Requested(g1, "Contact")
        g2 == Request(g1, "Contact")
    IN  [ g2 EXCEPT !.contacts[manifold][index + 1] = contactObject,
                    !.data = FieldSet(@, contactObject, collisionData) ]

\* The slots occupied in manifold value m and empty in m2, lowest first.
RECURSIVE SlotsEmptied(_, _, _)
SlotsEmptied(m, m2, i) ==
    IF i >= ArrayLength(m.contacts) THEN << >>
    ELSE IF m.contacts[i] # NULL /\ ArrayGet(m2.contacts, i) = NULL
         THEN << i >> \o SlotsEmptied(m, m2, i + 1)
         ELSE SlotsEmptied(m, m2, i + 1)

\* removeContact on the objects for each slot of slots in turn.
RECURSIVE RemoveContactObjects(_, _, _)
RemoveContactObjects(g, manifold, slots) ==
    IF slots = << >> THEN g
    ELSE RemoveContactObjects(RemoveContactObject(g, manifold, Head(slots)),
                              manifold, Tail(slots))

\* ContactManifoldTable.prototype.registerContact on the objects.  The
\* detector has requested the CollisionData object it passes; contains
\* removes the contact of the slot it found, addContact writes the slot
\* under the cursor.
RegisterContactObjects(g, bodyA, bodyB, collisionData) ==
    LET lowID == IF bodyA < bodyB THEN bodyA ELSE bodyB
        highID == IF bodyA < bodyB THEN bodyB ELSE bodyA
        dataObject == Requested(g, "CollisionData")
        g0 == Request(g, "CollisionData")
    IN  IF MatrixGet(collisionMatrix, lowID, highID) = NULL
        THEN LET index == AddManifoldIndex(Table)
                 manifold == Requested(g0, "Manifold")
                 g1 == Request(g0, "Manifold")
                 g2 == [ g1 EXCEPT
                           !.manifolds = ArraySet(@, index, Some(manifold)),
                           !.contacts = FieldSet(@, manifold, << 0, 0, 0, 0 >>) ]
             IN  AddContactObject(g2, manifold,
                     AddContactIndex(ManifoldReset(lowID, highID, bodyA, bodyB)),
                     dataObject)
        ELSE LET index == Val(MatrixGet(collisionMatrix, lowID, highID))
                 manifold == Val(g0.manifolds[index])
                 m0 == Val(manifolds[index])
                 m1 == Contains(m0, collisionData).manifold
                 g1 == RemoveContactObjects(g0, manifold, SlotsEmptied(m0, m1, 0))
             IN  AddContactObject(g1, manifold, AddContactIndex(m1), dataObject)

\* ContactManifoldTable.prototype.update on the objects: the loop from
\* index i on.  Manifold.prototype.update removes the contacts of the slots
\* it invalidates, removeManifold nulls the slot and frees the Manifold.
RECURSIVE TableUpdateObjects(_, _, _)
TableUpdateObjects(g, i, len) ==
    IF i >= len THEN g
    ELSE IF manifolds[i] = NULL THEN TableUpdateObjects(g, i + 1, len)
    ELSE LET m0 == Val(manifolds[i])
             r == ManifoldUpdate(m0)
             manifold == Val(g.manifolds[i])
             g1 == RemoveContactObjects(g, manifold, SlotsEmptied(m0, r.manifold, 0))
         IN  IF r.persists THEN TableUpdateObjects(g1, i + 1, len)
             ELSE TableUpdateObjects(
                    Free([ g1 EXCEPT !.manifolds = ArraySet(@, i, NULL) ],
                         "Manifold", manifold),
                    i + 1, len)

(***************************************************************************)
(* The numbers of the objects only tell them apart.  Renumbered(g) numbers *)
(* the objects of each type in the order in which they are reached from    *)
(* the table (manifolds by index, contacts by slot, data by contact), then *)
(* from the pool, then the objects reached from neither; an object keeps   *)
(* one number wherever it is reached, so sharing, double frees and lost    *)
(* objects are kept while states that differ in the numbering only become  *)
(* one state.                                                              *)
(***************************************************************************)
\* The elements of seq without repetition, in the order of first occurrence.
RECURSIVE Distinct(_)
Distinct(seq) ==
    IF seq = << >> THEN << >>
    ELSE LET rest == Distinct(SubSeq(seq, 1, Len(seq) - 1))
             last == seq[Len(seq)]
         IN  IF \E j \in 1 .. Len(rest) : rest[j] = last THEN rest
             ELSE Append(rest, last)

\* The objects of a type constructed so far.
AllObjects(g, type) == [ j \in 1 .. g.made[type] |-> j ]

NonZero(seq) ==
    LET Keep(x) == x # 0
    IN  SelectSeq(seq, Keep)

ManifoldOrder(g) ==
    LET Keep(i) == g.manifolds[i] # NULL
        live == SelectSeq([ j \in 1 .. ArrayLength(g.manifolds) |-> j - 1 ], Keep)
    IN  Distinct([ j \in 1 .. Len(live) |-> Val(g.manifolds[live[j]]) ]
                 \o g.free["Manifold"] \o AllObjects(g, "Manifold"))

ContactOrder(g) ==
    LET mo == ManifoldOrder(g)
        slots == [ j \in 1 .. 4 * Len(mo) |->
                     g.contacts[mo[((j - 1) \div 4) + 1]][((j - 1) % 4) + 1] ]
    IN  Distinct(NonZero(slots) \o g.free["Contact"] \o AllObjects(g, "Contact"))

DataOrder(g) ==
    LET co == ContactOrder(g)
    IN  Distinct(NonZero([ j \in 1 .. Len(co) |-> g.data[co[j]] ])
                 \o g.free["CollisionData"] \o AllObjects(g, "CollisionData"))

\* The new number of object id: its place in order; 0 stays 0.
Place(order, id) ==
    IF id = 0 THEN 0 ELSE CHOOSE j \in 1 .. Len(order) : order[j] = id

Renumbered(g) ==
    LET mo == ManifoldOrder(g)
        co == ContactOrder(g)
        do == DataOrder(g)
        order == [ type \in PoolTypes |->
                     CASE type = "Manifold" -> mo
                       [] type = "Contact" -> co
                       [] OTHER -> do ]
    IN  [ free      |-> [ type \in PoolTypes |->
                            [ j \in 1 .. Len(g.free[type]) |->
                                Place(order[type], g.free[type][j]) ] ],
          made      |-> g.made,
          manifolds |-> [ i \in DOMAIN g.manifolds |->
                            IF g.manifolds[i] = NULL THEN NULL
                            ELSE Some(Place(mo, Val(g.manifolds[i]))) ],
          contacts  |-> [ n \in 1 .. Len(mo) |->
                            [ s \in 1 .. 4 |-> Place(co, g.contacts[mo[n]][s]) ] ],
          data      |-> [ n \in 1 .. Len(co) |-> Place(do, g.data[co[n]]) ] ]

(***************************************************************************)
(* Actions of the table specifications                                     *)
(***************************************************************************)
\* The manifold of pair p in the array ms, NULL if it has none.
ManifoldOf(ms, p) ==
    LET live == { i \in DOMAIN ms :
                    /\ ms[i] # NULL
                    /\ Val(ms[i]).lowID = p[1]
                    /\ Val(ms[i]).highID = p[2] }
    IN  IF live = { } THEN NULL ELSE ms[CHOOSE i \in live : TRUE]

\* The observer of the contacts of a manifold: the slots in seq that are
\* still occupied in m, in their order.
StillOccupied(seq, m) ==
    LET Keep(j) == ArrayGet(m.contacts, j) # NULL
    IN  SelectSeq(seq, Keep)

\* The observer after registerContact on pair p: the contacts that contains
\* leaves and addContact does not overwrite keep their order, the slot
\* addContact writes becomes the youngest.
Registered(seq, p, collisionData) ==
    LET before == ManifoldOf(manifolds, p)
        m1 == IF before = NULL THEN ManifoldReset(p[1], p[2], p[1], p[2])
              ELSE Contains(Val(before), collisionData).manifold
        index == AddContactIndex(m1)
        Keep(j) == j # index
    IN  Append(SelectSeq(StillOccupied(IF before = NULL THEN << >> ELSE seq, m1), Keep),
               index)

\* registerContact(bodyA, bodyB, collisionData), called by the detector
\* while both bodies are where the data was measured: what the call does to
\* the table.
RegisterContactCalled(bodyA, bodyB, collisionData) ==
    /\ bodyA # bodyB
    /\ position[bodyA] = Home(bodyA)
    /\ position[bodyB] = Home(bodyB)
    /\ Overlapping(bodyA, bodyB)
    /\ Commit(RegisterContactOn(Table, bodyA, bodyB, collisionData))
    /\ LET p == << Min(bodyA, bodyB), Max(bodyA, bodyB) >>
       IN  recency' = [ recency EXCEPT ![p] = Registered(@, p, collisionData) ]
    /\ lastOp' = "registerContact"
    /\ UNCHANGED << bodyVars, solverVars >>

\* registerContact where the objects are not followed.
RegisterContactData(bodyA, bodyB, collisionData) ==
    /\ RegisterContactCalled(bodyA, bodyB, collisionData)
    /\ UNCHANGED pool

RegisterContact(bodyA, bodyB, k) ==
    RegisterContactData(bodyA, bodyB, CollisionData(bodyA, bodyB, k))

\* update(dt): what the call does to the table.
TableUpdateCalled ==
    /\ Commit(TableUpdateFrom(Table, 0, ArrayLength(manifolds)))
    /\ recency' = [ p \in Pairs |->
                      IF ManifoldOf(manifolds', p) = NULL THEN << >>
                      ELSE StillOccupied(recency[p], Val(ManifoldOf(manifolds', p))) ]
    /\ lastOp' = "update"
    /\ UNCHANGED << bodyVars, solverVars >>

\* update(dt) where the objects are not followed.
TableUpdate ==
    /\ TableUpdateCalled
    /\ UNCHANGED pool

\* The integrator moves body b to Home(b) + d.
MoveBody(b, d) ==
    /\ position[b] # VecAdd(Home(b), d)
    /\ position' = [ position EXCEPT ![b] = VecAdd(Home(b), d) ]
    /\ events' = << >>
    /\ lastOp' = "move"
    /\ UNCHANGED << velocity, angularVelocity, manifolds, collisionMatrix,
                    IDPool, started, recency, pool, solverVars >>

\* Displacements from home: none, sideways by THRESHOLD / 2, THRESHOLD and
\* THRESHOLD + 1, and along the row by 5 (which separates a pair).
Still == ZeroVec
Sideways(d) == << 0, d, 0 >>
Along(d) == << d, 0, 0 >>
TableMoves == { Still, Sideways(THRESHOLD) }
ManifoldMoves(b) ==
    IF b = 1 THEN { Still, Sideways(THRESHOLD) }
    ELSE { Still, Sideways(THRESHOLD \div 2), Sideways(THRESHOLD),
           Sideways(THRESHOLD + ONE), Along(5 * ONE) }

Init ==
    /\ position = [ b \in Bodies |-> Home(b) ]
    /\ velocity = [ b \in Bodies |-> ZeroVec ]
    /\ angularVelocity = [ b \in Bodies |-> ZeroVec ]
    /\ manifolds = EmptyArray
    /\ collisionMatrix = [ b \in Bodies |-> NULL ]
    /\ IDPool = << >>
    /\ events = << >>
    /\ started = [ p \in Pairs |-> FALSE ]
    /\ recency = [ p \in Pairs |-> << >> ]
    /\ pool = NoObjects
    /\ lastOp = "init"
    /\ contact = NULL
    /\ contactState = "absent"
    /\ distance = NULL
    /\ distanceState = "absent"
    /\ resolvesLeft = 0
    /\ applied = NoCalls
    /\ resolved = NoneResolved

Next ==
    \/ \E a \in Bodies, b \in Bodies : RegisterContact(a, b, 0)
    \/ TableUpdate
    \/ \E b \in Bodies, d \in TableMoves : MoveBody(b, d)

Spec == Init /\ [][Next]_vars

\* A contact point of first body a and second body b halfway between the
\* points 0 and 1 of CollisionData, within THRESHOLD of both.
BetweenData(a, b) ==
    LET localA == << Side(a, b) * Reach(0), THRESHOLD \div 2, 0 >>
        localB == << -Side(a, b) * Reach(0), THRESHOLD \div 2, 0 >>
    IN  [ normal        |-> << Side(a, b) * ONE, 0, 0 >>,
          localContactA |-> localA,
          localContactB |-> localB,
          worldContactA |-> VecAdd(Home(a), localA),
          worldContactB |-> VecAdd(Home(b), localB),
          penetration   |-> 2 * Reach(0) - VecLength(VecSubtract(Home(b), Home(a))) ]

NextManifold ==
    \/ \E k \in 0 .. ManifoldPoints : RegisterContact(1, 2, k)
    \/ RegisterContactData(1, 2, BetweenData(1, 2))
    \/ TableUpdate
    \/ \E b \in {1, 2} : \E d \in ManifoldMoves(b) : MoveBody(b, d)

SpecManifold == Init /\ [][NextManifold]_vars

(***************************************************************************)
(* The table with its objects followed: the pair (1, 2) with the contact   *)
(* points 0 .. PoolPoints and the pair (2, 3) with the contact point 0.    *)
(* Body 2 moves along the row by 5, which separates the even points of     *)
(* (1, 2) and nothing else, or sideways by THRESHOLD, which invalidates    *)
(* every contact of both pairs.                                            *)
(***************************************************************************)
PoolMoves == { Still, Along(5 * ONE), Sideways(THRESHOLD) }

\* registerContact with the CollisionData of point k, the objects followed.
RegisterContactPooled(bodyA, bodyB, k) ==
    /\ RegisterContactCalled(bodyA, bodyB, CollisionData(bodyA, bodyB, k))
    /\ pool' = Renumbered(RegisterContactObjects(pool, bodyA, bodyB,
                                                 CollisionData(bodyA, bodyB, k)))

\* update(dt), the objects followed.
TableUpdatePooled ==
    /\ TableUpdateCalled
    /\ pool' = Renumbered(TableUpdateObjects(pool, 0, ArrayLength(manifolds)))

NextPool ==
    \/ \E k \in 0 .. PoolPoints : RegisterContactPooled(1, 2, k)
    \/ RegisterContactPooled(2, 3, 0)
    \/ TableUpdatePooled
    \/ \E d \in PoolMoves : MoveBody(2, d)

SpecPool == Init /\ [][NextPool]_vars

(***************************************************************************)
(* Contact: the object with all its fields.  velocityBias is Undefined     *)
(* until Contact.prototype.update assigns it, Some(v) afterwards.          *)
(***************************************************************************)
\* new Contact(): the instance the pool constructs when it is empty.
NewContact ==
    [ bodyA |-> Undefined, bodyB |-> Undefined, data |-> Undefined,
      normalImpulse |-> 0, tangentImpulse1 |-> 0, tangentImpulse2 |-> 0,
      impulse |-> ZeroVec, angImpulseA |-> ZeroVec, angImpulseB |-> ZeroVec,
      tangent1 |-> Undefined, tangent2 |-> Undefined,
      effNormalMass |-> Undefined, effTangentialMass1 |-> Undefined,
      effTangentialMass2 |-> Undefined,
      restitution |-> Undefined, friction |-> Undefined,
      velocityBias |-> Undefined ]

\* 1 / (invEffectiveMass + r1 . (I_A r1) + r2 . (I_B r2)) for the axis.
EffectiveMass(bodyA, bodyB, rBodyA, rBodyB, axis) ==
    LET invEffectiveMass == InverseMass(bodyA) + InverseMass(bodyB)
        r1 == VecCross(rBodyA, axis)
        r2 == VecCross(rBodyB, axis)
    IN  FDiv(ONE, invEffectiveMass + VecDot(r1, InertiaMultiply(bodyA, r1))
                                   + VecDot(r2, InertiaMultiply(bodyB, r2)))

\* The tangent basis of Contact.prototype.init for normal n.
Tangent1(n) ==
    VecNormalize(IF n[1] * 100000 >= 57735 * ONE
                 THEN << n[2], -n[1], 0 >>
                 ELSE << 0, n[3], -n[2] >>)
Tangent2(n) == VecCross(n, Tangent1(n))

\* Contact.prototype.init
ContactInit(c) ==
    LET data == Val(c.data)
        n == data.normal
        t1 == Tangent1(n)
        t2 == Tangent2(n)
        rBodyA == data.localContactA
        rBodyB == data.localContactB
    IN  [ c EXCEPT
            !.tangent1 = t1,
            !.tangent2 = t2,
            !.effNormalMass = EffectiveMass(c.bodyA, c.bodyB, rBodyA, rBodyB, n),
            !.effTangentialMass1 = EffectiveMass(c.bodyA, c.bodyB, rBodyA, rBodyB, t1),
            !.effTangentialMass2 = EffectiveMass(c.bodyA, c.bodyB, rBodyA, rBodyB, t2),
            !.restitution = Min(Restitution(c.bodyA), Restitution(c.bodyB)),
            !.friction = FMul(Friction(c.bodyA), Friction(c.bodyB)) ]

\* new Contact(bodyA, bodyB, collisionData)
ContactConstruct(bodyA, bodyB, collisionData) ==
    ContactInit([ NewContact EXCEPT !.bodyA = bodyA, !.bodyB = bodyB,
                                    !.data = Some(collisionData) ])

\* Contact.prototype.reset
ContactReset(c, bodyA, bodyB, collisionData) ==
    ContactInit([ c EXCEPT
        !.bodyA = bodyA, !.bodyB = bodyB, !.data = Some(collisionData),
        !.normalImpulse = 0, !.tangentImpulse1 = 0, !.tangentImpulse2 = 0,
        !.impulse = ZeroVec, !.angImpulseA = ZeroVec, !.angImpulseB = ZeroVec ])

\* The relative velocity of the two contact points, as update and resolve
\* compute it.
RelativeVelocity(c) ==
    LET data == Val(c.data)
        vb1 == VecAdd(velocity[c.bodyA],
                      VecCross(angularVelocity[c.bodyA], data.localContactA))
        vb2 == VecAdd(velocity[c.bodyB],
                      VecCross(angularVelocity[c.bodyB], data.localContactB))
    IN  VecSubtract(vb2, vb1)

Beta == (15 * ONE) \div 100
Slop == (3 * ONE) \div 2
VelocityTolerance == 20 * ONE
Quarter == ONE \div 4

\* Contact.prototype.update: the object afterwards and the calls made.
ContactUpdated(c, dt) ==
    LET data == Val(c.data)
        contactSpeed == VecDot(RelativeVelocity(c), data.normal)
        restitution == IF Abs(contactSpeed) < VelocityTolerance THEN 0 ELSE c.restitution
        velocityBias == FDiv(FMul(-Beta, Max(data.penetration - Slop, 0)), dt)
                        + FMul(restitution, contactSpeed)
        impulse == VecScale(c.impulse, Quarter)
        angImpulseA == VecScale(c.angImpulseA, Quarter)
        angImpulseB == VecScale(c.angImpulseB, Quarter)
    IN  [ contact |->
            [ c EXCEPT
                !.velocityBias = Some(velocityBias),
                !.normalImpulse = 0, !.tangentImpulse1 = 0, !.tangentImpulse2 = 0,
                !.impulse = ZeroVec, !.angImpulseA = ZeroVec, !.angImpulseB = ZeroVec ],
          calls |->
            [ linB |-> Some(impulse), angB |-> Some(angImpulseB),
              linA |-> Some(VecInvert(impulse)), angA |-> Some(angImpulseA) ] ]

ClampLowerOnly(value, lower, upper) ==
    IF value < lower THEN lower ELSE value

\* clamp
Clamp(value, lower, upper) ==
    IF value < lower THEN lower ELSE IF value > upper THEN upper ELSE value

NewNormalImpulseUnclamped(c, normalLambda) ==
    c.normalImpulse + normalLambda

\* var newNormalImpulse = Math.max(this.normalImpulse + normalLambda, 0)
NewNormalImpulse(c, normalLambda) ==
    Max(c.normalImpulse + normalLambda, 0)

ResolveCallsSameSign(rBodyA, rBodyB, impulse) ==
    [ linB |-> Some(impulse), angB |-> Some(VecCross(rBodyB, impulse)),
      linA |-> Some(impulse), angA |-> Some(VecInvert(VecCross(rBodyA, impulse))) ]

ResolveCallsAngularNotInverted(rBodyA, rBodyB, impulse) ==
    [ linB |-> Some(impulse), angB |-> Some(VecCross(rBodyB, impulse)),
      linA |-> Some(VecInvert(impulse)), angA |-> Some(VecCross(rBodyA, impulse)) ]

\* The four calls of Contact.prototype.resolve for the impulse of the
\* iteration: angImpulseB = rBodyB x impulse and angImpulseA =
\* -(rBodyA x impulse) are computed first, then bodyB gets impulse and
\* angImpulseB, impulse is inverted, and bodyA gets impulse and angImpulseA.
ResolveCalls(rBodyA, rBodyB, impulse) ==
    [ linB |-> Some(impulse), angB |-> Some(VecCross(rBodyB, impulse)),
      linA |-> Some(VecInvert(impulse)),
      angA |-> Some(VecInvert(VecCross(rBodyA, impulse))) ]

\* Contact.prototype.resolve: the object afterwards and the calls made.
\* The accumulators add the registers as the calls left them: impulse
\* inverted, angImpulseA and angImpulseB.
ContactResolved(c) ==
    LET data == Val(c.data)
        n == data.normal
        t1 == c.tangent1
        t2 == c.tangent2
        relativeVelocity == RelativeVelocity(c)
        newNormalImpulse ==
            NewNormalImpulse(c,
                FMul(-(VecDot(relativeVelocity, n) + Val(c.velocityBias)),
                     c.effNormalMass))
        normalLambda == newNormalImpulse - c.normalImpulse
        maxFriction == FMul(c.friction, newNormalImpulse)
        newTangentImpulse1 ==
            Clamp(c.tangentImpulse1
                    + FMul(-VecDot(relativeVelocity, t1), c.effTangentialMass1),
                  -maxFriction, maxFriction)
        tangentLambda1 == newTangentImpulse1 - c.tangentImpulse1
        newTangentImpulse2 ==
            Clamp(c.tangentImpulse2
                    + FMul(-VecDot(relativeVelocity, t2), c.effTangentialMass2),
                  -maxFriction, maxFriction)
        tangentLambda2 == newTangentImpulse2 - c.tangentImpulse2
        impulse == VecAdd(VecAdd(VecScale(n, normalLambda),
                                 VecScale(t1, tangentLambda1)),
                          VecScale(t2, tangentLambda2))
        calls == ResolveCalls(data.localContactA, data.localContactB, impulse)
    IN  [ contact |->
            [ c EXCEPT
                !.normalImpulse = newNormalImpulse,
                !.tangentImpulse1 = newTangentImpulse1,
                !.tangentImpulse2 = newTangentImpulse2,
                !.impulse = VecAdd(@, Val(calls.linA)),
                !.angImpulseA = VecAdd(@, Val(calls.angA)),
                !.angImpulseB = VecAdd(@, Val(calls.angB)) ],
          calls |-> calls ]

(***************************************************************************)
(* ObjectManager (pooling collaborator) for the one Contact instance of    *)
(* SpecSolver: freeContact pushes the instance as it is, requestContact    *)
(* pops it, or constructs a new one while the pool is empty.               *)
(***************************************************************************)
OMRequestContact == IF contactState = "free" THEN contact ELSE NewContact

(***************************************************************************)
(* Inputs of SpecSolver                                                    *)
(***************************************************************************)
\* A contact of bodies 1 and 2 with an axis as normal n: the offsets reach
\* along the normal and lie 5 apart from the line of centres.
TiltedData(n) ==
    [ normal        |-> n,
      localContactA |-> VecAdd(VecScale(n, Radius), << 0, 0, 5 * ONE >>),
      localContactB |-> VecAdd(VecScale(n, -Radius), << 0, 0, 5 * ONE >>),
      worldContactA |-> VecAdd(Home(1), VecAdd(VecScale(n, Radius), << 0, 0, 5 * ONE >>)),
      worldContactB |-> VecAdd(Home(2), VecAdd(VecScale(n, -Radius), << 0, 0, 5 * ONE >>)),
      penetration   |-> 2 * ONE ]

\* The arguments of Contact.prototype.reset: bodyA, bodyB, collisionData.
SolverContacts ==
    { << 1, 2, CollisionData(1, 2, 0) >>, << 2, 1, CollisionData(2, 1, 0) >>,
      << 2, 3, CollisionData(2, 3, 1) >>,
      << 1, 2, TiltedData(<< 0, ONE, 0 >>) >>,
      << 1, 2, TiltedData(<< 0, 0, -ONE >>) >>,
      << 1, 2, TiltedData(<< 0, -ONE, 0 >>) >>,
      << 1, 2, TiltedData(<< 0, 0, ONE >>) >> }

\* The frame delta passed to update.
Steps == { ONE \div 10, ONE }

\* What the integrator and the other constraints leave as velocity and
\* angular velocity of bodies 1 and 2 (body 3 does not move): at rest, a
\* slow approach, a fast approach with sliding, a separation with spin.
Motion(v1, w1, v2, w2) == [ v1 |-> v1, w1 |-> w1, v2 |-> v2, w2 |-> w2 ]
Motions ==
    { Motion(ZeroVec, ZeroVec, ZeroVec, ZeroVec),
      Motion(ZeroVec, ZeroVec, << -5 * ONE, 0, 0 >>, ZeroVec),
      Motion(<< 10 * ONE, 0, 0 >>, ZeroVec, << -20 * ONE, 40 * ONE, 0 >>, ZeroVec),
      Motion(ZeroVec, << 0, ONE, 0 >>, << 5 * ONE, 0, -3 * ONE >>, << 0, 0, 2 * ONE >>) }

(***************************************************************************)
(* Actions of SpecSolver on the Contact.  The engine's step calls update   *)
(* (prepContacts) before its resolve passes (resolveManifolds), so resolve *)
(* is enabled only after an update of the live contact.                    *)
(***************************************************************************)
\* Manifold.prototype.addContact, line 239: OMRequestContact().reset(...)
ContactAdd(bodyA, bodyB, collisionData) ==
    /\ contactState \in { "none", "free" }
    /\ contact' = ContactReset(OMRequestContact, bodyA, bodyB, collisionData)
    /\ contactState' = "live"
    /\ resolvesLeft' = 0
    /\ applied' = NoCalls
    /\ resolved' = NoneResolved
    /\ lastOp' = "Contact.reset"
    /\ UNCHANGED << bodyVars, tableVars, distance, distanceState >>

\* ContactManifoldTable.prototype.prepContacts on the contact
ContactUpdate(dt) ==
    /\ contactState = "live"
    /\ contact' = ContactUpdated(contact, dt).contact
    /\ applied' = ContactUpdated(contact, dt).calls
    /\ resolved' = NoneResolved
    /\ resolvesLeft' = MaxResolves
    /\ lastOp' = "Contact.update"
    /\ UNCHANGED << bodyVars, tableVars, contactState, distance, distanceState >>

\* Manifold.prototype.resolveContacts on the contact
ContactResolve ==
    /\ contactState = "live"
    /\ resolvesLeft > 0
    /\ contact' = ContactResolved(contact).contact
    /\ applied' = ContactResolved(contact).calls
    /\ resolved' = Observed(resolved, applied', 0)
    /\ resolvesLeft' = resolvesLeft - 1
    /\ lastOp' = "Contact.resolve"
    /\ UNCHANGED << bodyVars, tableVars, contactState, distance, distanceState >>

\* Manifold.prototype.removeContact, lines 255-257
ContactFree ==
    /\ contactState = "live"
    /\ contact' = [ contact EXCEPT !.data = NULL ]
    /\ contactState' = "free"
    /\ resolvesLeft' = 0
    /\ applied' = NoCalls
    /\ resolved' = NoneResolved
    /\ lastOp' = "Contact.free"
    /\ UNCHANGED << bodyVars, tableVars, distance, distanceState >>

\* The integrator and the other constraints change the velocities.
SetMotion(m) ==
    /\ contactState = "live" \/ distanceState \in { "constructed", "updated" }
    /\ velocity' = [ velocity EXCEPT ![1] = m.v1, ![2] = m.v2 ]
    /\ angularVelocity' = [ angularVelocity EXCEPT ![1] = m.w1, ![2] = m.w2 ]
    /\ << velocity', angularVelocity' >> # << velocity, angularVelocity >>
    /\ applied' = NoCalls
    /\ lastOp' = "move"
    /\ UNCHANGED << position, tableVars, contact, contactState, distance,
                    distanceState, resolvesLeft, resolved >>

(***************************************************************************)
(* Distance                                                                *)
(***************************************************************************)
PI == (314 * ONE) \div 100

\* Distance.prototype.init on the object d: a falsy option (unset, or 0)
\* gets its default.
DistanceInit(d) ==
    LET length == IF d.length # 0 THEN d.length
                  ELSE VecLength(VecSubtract(position[d.b], position[d.a]))
        minLength == d.minLength
        period == IF d.period # 0 THEN d.period ELSE ONE \div 5
        dampingRatio == IF d.dampingRatio # 0 THEN d.dampingRatio ELSE ONE \div 2
    IN  [ d EXCEPT
            !.length = length, !.minLength = minLength,
            !.period = period, !.dampingRatio = dampingRatio,
            !.stiffness = FDiv(FMul(4 * PI, PI), FMul(period, period)),
            !.damping = FDiv(FMul(4 * PI, dampingRatio), period) ]

\* new Distance(a, b, options): Constraint.call copies the options onto the
\* object and calls init, then the constructor zeroes the solver fields.
DistanceConstruct(a, b, options) ==
    [ DistanceInit([ a |-> a, b |-> b,
                     length |-> options.length, minLength |-> options.minLength,
                     period |-> options.period, dampingRatio |-> options.dampingRatio,
                     stiffness |-> 0, damping |-> 0,
                     impulse |-> 0, distance |-> 0, normal |-> ZeroVec,
                     velocityBias |-> 0, divisor |-> 0 ])
      EXCEPT !.impulse = 0, !.distance = 0, !.normal = ZeroVec,
             !.velocityBias = 0, !.divisor = 0 ]

\* What the free identifier period of Distance.prototype.update, line 90,
\* resolves to: nothing (the read throws a ReferenceError), or a property
\* of the global object that is 0 or is not.
FreePeriod == { "unbound", "zero", "nonzero" }

\* Distance.prototype.update past line 90: the object afterwards and the
\* calls made.
DistanceUpdated(d, dt, period) ==
    LET diffP == VecSubtract(position[d.b], position[d.a])
        separation == VecLength(diffP)
        n == VecScale(diffP, FDiv(ONE, separation))
        dist == separation - d.length
        invEffectiveMass == InverseMass(d.a) + InverseMass(d.b)
        effectiveMass == FDiv(ONE, invEffectiveMass)
        c == FMul(d.damping, effectiveMass)
        k == FMul(d.stiffness, effectiveMass)
        gamma == IF period = "zero" THEN 0
                 ELSE FDiv(ONE, FMul(dt, c + FMul(dt, k)))
        beta == IF period = "zero" THEN ONE
                ELSE FDiv(FMul(dt, k), c + FMul(dt, k))
        baumgarte == FDiv(FMul(beta, dist), dt)
        divisor == gamma + invEffectiveMass
        impulse == VecScale(n, d.impulse)
    IN  [ distance |->
            [ d EXCEPT !.normal = n, !.distance = dist,
                       !.velocityBias = baumgarte, !.divisor = divisor,
                       !.impulse = 0 ],
          calls |->
            [ linB |-> Some(impulse), linA |-> Some(VecInvert(impulse)),
              angA |-> NULL, angB |-> NULL ] ]

\* var lambda = -(Vec3.dot(n, diffV) + this.velocityBias) / this.divisor
DistanceLambda(d) ==
    LET diffV == VecSubtract(velocity[d.b], velocity[d.a])
    IN  FDiv(-(VecDot(d.normal, diffV) + d.velocityBias), d.divisor)

DistanceResolvedIgnoringSlack(d) ==
    LET impulse == VecScale(d.normal, DistanceLambda(d))
    IN  [ distance |-> [ d EXCEPT !.impulse = @ + DistanceLambda(d) ],
          calls |->
            [ linB |-> Some(impulse), linA |-> Some(VecInvert(impulse)),
              angA |-> NULL, angB |-> NULL ] ]

\* Distance.prototype.resolve: the object afterwards and the calls made.
DistanceResolved(d) ==
    IF Abs(d.distance) < d.minLength
    THEN [ distance |-> d, calls |-> NoCalls ]
    ELSE LET lambda == DistanceLambda(d)
             impulse == VecScale(d.normal, lambda)
         IN  [ distance |-> [ d EXCEPT !.impulse = @ + lambda ],
               calls |->
                 [ linB |-> Some(impulse), linA |-> Some(VecInvert(impulse)),
                   angA |-> NULL, angB |-> NULL ] ]

\* The options of the Distance of SpecSolver, 0 where an option is not
\* given, and its two bodies.
Options(length, minLength, period, dampingRatio) ==
    [ length |-> length, minLength |-> minLength, period |-> period,
      dampingRatio |-> dampingRatio ]
DistanceOptions ==
    { Options(0, 0, 0, 0),
      Options(15 * ONE, 0, ONE \div 2, ONE),
      Options(0, 2 * ONE, 0, 0) }
DistanceBodies == { << 1, 2 >>, << 2, 3 >> }

\* Distance.prototype.update
DistanceUpdate(dt, period) ==
    /\ distanceState \in { "constructed", "updated" }
    /\ IF period = "unbound"
       THEN /\ distanceState' = "thrown"
            /\ distance' = distance
            /\ applied' = NoCalls
            /\ resolved' = resolved
            /\ resolvesLeft' = 0
       ELSE /\ distanceState' = "updated"
            /\ distance' = Some(DistanceUpdated(Val(distance), dt, period).distance)
            /\ applied' = DistanceUpdated(Val(distance), dt, period).calls
            /\ resolved' = NoneResolved
            /\ resolvesLeft' = MaxResolves
    /\ lastOp' = "Distance.update"
    /\ UNCHANGED << bodyVars, tableVars, contact, contactState >>

\* Distance.prototype.resolve
DistanceResolve ==
    /\ distanceState = "updated"
    /\ resolvesLeft > 0
    /\ distance' = Some(DistanceResolved(Val(distance)).distance)
    /\ applied' = DistanceResolved(Val(distance)).calls
    /\ resolved' = Observed(resolved, applied', DistanceLambda(Val(distance)))
    /\ resolvesLeft' = resolvesLeft - 1
    /\ lastOp' = "Distance.resolve"
    /\ UNCHANGED << bodyVars, tableVars, contact, contactState, distanceState >>

\* The integrator moves the second body of the constrained pair.
DistanceMove(d) ==
    /\ distanceState \in { "constructed", "updated" }
    /\ MoveBody(Val(distance).b, d)

(***************************************************************************)
(* SpecSolver: one Contact through its life in the pool, or one Distance.  *)
(***************************************************************************)
InitSolver ==
    /\ position = [ b \in Bodies |-> Home(b) ]
    /\ velocity = [ b \in Bodies |-> ZeroVec ]
    /\ angularVelocity = [ b \in Bodies |-> ZeroVec ]
    /\ manifolds = EmptyArray
    /\ collisionMatrix = [ b \in Bodies |-> NULL ]
    /\ IDPool = << >>
    /\ events = << >>
    /\ started = [ p \in Pairs |-> FALSE ]
    /\ recency = [ p \in Pairs |-> << >> ]
    /\ pool = NoObjects
    /\ lastOp = "init"
    /\ resolvesLeft = 0
    /\ applied = NoCalls
    /\ resolved = NoneResolved
    /\ \/ /\ contact = NULL
          /\ contactState = "none"
          /\ distance = NULL
          /\ distanceState = "absent"
       \/ /\ contact = NULL
          /\ contactState = "absent"
          /\ \E ab \in DistanceBodies, options \in DistanceOptions :
                distance = Some(DistanceConstruct(ab[1], ab[2], options))
          /\ distanceState = "constructed"

NextSolver ==
    \/ \E c \in SolverContacts : ContactAdd(c[1], c[2], c[3])
    \/ \E dt \in Steps : ContactUpdate(dt)
    \/ ContactResolve
    \/ ContactFree
    \/ \E m \in Motions : SetMotion(m)
    \/ \E dt \in Steps, period \in FreePeriod : DistanceUpdate(dt, period)
    \/ DistanceResolve
    \/ \E d \in TableMoves : DistanceMove(d)

SpecSolver == InitSolver /\ [][NextSolver]_vars

(***************************************************************************)
(* Properties of the table                                                 *)
(***************************************************************************)
LiveIndices == { i \in DOMAIN manifolds : manifolds[i] # NULL }
Occupied(m) == { j \in DOMAIN m.contacts : m.contacts[j] # NULL }
HasManifold(p) ==
    \E i \in LiveIndices :
        Val(manifolds[i]).lowID = p[1] /\ Val(manifolds[i]).highID = p[2]

\* C1: every Manifold in the table holds at most 4 live contacts: its
\* occupied contact slots have index 0..3, numContacts equals their number
\* and is at most 4.
C1_ManifoldCapacity ==
    \A i \in LiveIndices :
        LET m == Val(manifolds[i])
        IN  /\ Occupied(m) \subseteq 0 .. 3
            /\ m.numContacts = Cardinality(Occupied(m))
            /\ m.numContacts <= 4

\* A full manifold whose cursor has wrapped: a contact was added to a
\* manifold already holding four.
C1_Witness ==
    /\ lastOp = "registerContact"
    /\ \E i \in LiveIndices :
          /\ Val(manifolds[i]).numContacts = 4
          /\ Val(manifolds[i]).lru = 1
          /\ Val(manifolds[i]).contacts[0] # NULL
          /\ Val(Val(manifolds[i]).contacts[0]).data = CollisionData(1, 2, 4)

\* At most one live Manifold per unordered pair of bodies.
UniquePerPair ==
    \A i, j \in LiveIndices :
        i # j => { Val(manifolds[i]).bodyA, Val(manifolds[i]).bodyB }
                 # { Val(manifolds[j]).bodyA, Val(manifolds[j]).bodyB }

\* C2: registerContact(a, b, data), in either argument order, puts the
\* contact into the manifold slot that collisionMatrix holds under
\* (min(a, b), max(a, b)) and touches no other slot; the table never holds
\* two live Manifolds for one unordered pair.
C2_PairCanonical ==
    [][ /\ UniquePerPair'
        /\ \A a, b \in Bodies :
              RegisterContact(a, b, 0) =>
                LET lowID == Min(a, b)
                    highID == Max(a, b)
                    entry == MatrixGet(collisionMatrix', lowID, highID)
                IN  /\ entry # NULL
                    /\ manifolds'[Val(entry)] # NULL
                    /\ LET m == Val(manifolds'[Val(entry)])
                       IN  /\ m.lowID = lowID
                           /\ m.highID = highID
                           /\ \E j \in Occupied(m) :
                                 Val(m.contacts[j]) =
                                    ContactOf(a, b, CollisionData(a, b, 0))
                    /\ \A i \in DOMAIN manifolds' \ { Val(entry) } :
                          manifolds'[i] = ArrayGet(manifolds, i) ]_vars

\* A manifold created as (1, 2) that holds a contact registered as (2, 1).
C2_Witness ==
    /\ lastOp = "registerContact"
    /\ \E i \in LiveIndices :
          LET m == Val(manifolds[i])
          IN  /\ m.bodyA = 1 /\ m.bodyB = 2
              /\ \E j \in Occupied(m) : Val(m.contacts[j]).bodyA = 2

\* What the claim says makes Manifold.update remove contact c of manifold
\* m: a drift of the cached world point from the recomputed one of more
\* than (strict) or at least (not strict) THRESHOLD for A or for B, or a
\* positive separation along the normal.
Stale(m, c, strict) ==
    LET wA == VecAdd(position[m.bodyA], c.data.localContactA)
        wB == VecAdd(position[m.bodyB], c.data.localContactB)
        dA == VecLength(VecSubtract(c.data.worldContactA, wA))
        dB == VecLength(VecSubtract(c.data.worldContactB, wB))
    IN  \/ IF strict THEN dA > THRESHOLD \/ dB > THRESHOLD
                     ELSE dA >= THRESHOLD \/ dB >= THRESHOLD
        \/ VecDot(VecSubtract(wB, wA), c.data.normal) > 0

\* A table update removes exactly the stale contacts of every manifold,
\* leaves the others in their slots, and keeps the manifold (Manifold.update
\* returned true) iff a contact remains.
UpdateRemovesExactly(strict) ==
    lastOp' = "update" =>
        \A i \in LiveIndices :
            LET m == Val(manifolds[i])
                keep == { j \in Occupied(m) : ~Stale(m, Val(m.contacts[j]), strict) }
            IN  IF keep = {} THEN manifolds'[i] = NULL
                ELSE /\ manifolds'[i] # NULL
                     /\ \A j \in DOMAIN m.contacts :
                           Val(manifolds'[i]).contacts[j] =
                              IF j \in keep THEN m.contacts[j] ELSE NULL

AllManifoldsNonEmpty ==
    \A i \in LiveIndices :
        Val(manifolds[i]).numContacts >= 1 /\ Occupied(Val(manifolds[i])) # {}

\* C8: after every operation each Manifold stored in a table slot has at
\* least one live contact, and a table update leaves every manifold whose
\* Manifold.update reported non-persistence with its slot empty, its
\* collisionMatrix entry cleared and its index pushed once on the free-list.
C8_EmptyManifoldRemoved ==
    [][ /\ AllManifoldsNonEmpty'
        /\ lastOp' = "update" =>
              \A i \in LiveIndices :
                  LET m == Val(manifolds[i])
                  IN  ~ManifoldUpdate(m).persists =>
                        /\ manifolds'[i] = NULL
                        /\ MatrixGet(collisionMatrix', m.lowID, m.highID) = NULL
                        /\ Cardinality({ n \in 1 .. Len(IDPool') : IDPool'[n] = i }) = 1
                        /\ \A n \in 1 .. Len(IDPool) : IDPool[n] # i ]_vars

\* An update has just removed one manifold while another stays.
C8_Witness ==
    /\ lastOp = "update"
    /\ Len(IDPool) > 0
    /\ LiveIndices # {}
    /\ \E e \in 1 .. Len(events) : events[e].name = "collision:end"

\* The notifications of the step for pair p, in order.
EventsFor(evs, p) ==
    LET Mine(e) == e.lowID = p[1] /\ e.highID = p[2]
    IN  SelectSeq(evs, Mine)

\* C9: per pair, collision:start is triggered (once to each of the two
\* bodies) exactly in the step in which registerContact creates the pair's
\* manifold, and only when the pair's last notification was not a start;
\* collision:end (once to each body) exactly in the step in which the table
\* update removes it, and only after a start; no other step notifies.
C9_StartEndAlternate ==
    [][ \A p \in Pairs :
          LET evs == EventsFor(events', p)
              before == HasManifold(p)
              after == HasManifold(p)'
              ToBoth(name) ==
                  /\ Len(evs) = 2
                  /\ evs[1].name = name /\ evs[2].name = name
                  /\ { evs[1].body, evs[2].body } = { p[1], p[2] }
          IN  /\ (~before /\ after) =>
                    lastOp' = "registerContact" /\ ~started[p] /\ ToBoth("collision:start")
              /\ (before /\ ~after) =>
                    lastOp' = "update" /\ started[p] /\ ToBoth("collision:end")
              /\ (before = after) => evs = << >> ]_vars

\* Pair (1, 2) has ended, been started again and ended again while pair
\* (2, 3) is in contact.
C9_Witness ==
    /\ lastOp = "update"
    /\ ~started[<< 1, 2 >>]
    /\ started[<< 2, 3 >>]
    /\ IDPool = << 0 >>
    /\ ArrayLength(manifolds) = 2
    /\ EventsFor(events, << 1, 2 >>) # << >>

(***************************************************************************)
(* Properties of the solvers (SpecSolver)                                  *)
(***************************************************************************)
\* C3: the accumulated normalImpulse of a contact is never negative, an
\* accumulation that would go below zero being clamped to zero.
C3_NormalImpulseNonNegative ==
    contactState = "live" => contact.normalImpulse >= 0

\* A second resolve, with the bodies now separating, has brought a contact
\* back to normalImpulse 0.
C3_Witness ==
    /\ lastOp = "Contact.resolve"
    /\ resolvesLeft <= MaxResolves - 2
    /\ contact.normalImpulse = 0
    /\ VecDot(RelativeVelocity(contact), Val(contact.data).normal)
         + Val(contact.velocityBias) > 0

\* C4: after resolve each accumulated tangential impulse lies within
\* friction * normalImpulse of zero, so both are 0 once normalImpulse is 0.
C4_FrictionCone ==
    lastOp = "Contact.resolve" =>
        LET maxFriction == FMul(contact.friction, contact.normalImpulse)
        IN  /\ Abs(contact.tangentImpulse1) <= maxFriction
            /\ Abs(contact.tangentImpulse2) <= maxFriction
            /\ contact.normalImpulse = 0 =>
                   contact.tangentImpulse1 = 0 /\ contact.tangentImpulse2 = 0

\* A resolve has left a nonzero tangential impulse on the boundary of the
\* cone: the clamp was active.
C4_Witness ==
    /\ lastOp = "Contact.resolve"
    /\ contact.tangentImpulse1 # 0
    /\ Abs(contact.tangentImpulse1) = FMul(contact.friction, contact.normalImpulse)

\* C5: the linear impulse a resolve (of a Contact or of a Distance) passes
\* to the first body is the exact negation of the one it passes to the
\* second body.
C5_LinearImpulsesOpposite ==
    lastOp \in { "Contact.resolve", "Distance.resolve" } =>
        \/ applied.linA = NULL /\ applied.linB = NULL
        \/ /\ applied.linA # NULL
           /\ applied.linB # NULL
           /\ Val(applied.linA) = VecInvert(Val(applied.linB))

\* The resolve of a Distance has applied a nonzero linear impulse, after
\* the resolve of an earlier iteration.
C5_Witness ==
    /\ lastOp = "Distance.resolve"
    /\ resolvesLeft <= MaxResolves - 2
    /\ applied.linB # NULL
    /\ Val(applied.linB) # ZeroVec

\* C6 as stated: the angular impulses Contact.resolve passes to the two
\* bodies are exact negations of each other.
C6_AsClaimed ==
    lastOp = "Contact.resolve" =>
        Val(applied.angA) = VecInvert(Val(applied.angB))

\* C6: with J the linear impulse passed to bodyB, Contact.resolve passes
\* localContactB x J to bodyB and the negation of localContactA x J to
\* bodyA; the two are negations of each other when the two cross products
\* are equal.
C6_AngularImpulses ==
    lastOp = "Contact.resolve" =>
        LET data == Val(contact.data)
            J == Val(applied.linB)
        IN  /\ Val(applied.angB) = VecCross(data.localContactB, J)
            /\ Val(applied.angA) = VecInvert(VecCross(data.localContactA, J))
            /\ VecCross(data.localContactA, J) = VecCross(data.localContactB, J) =>
                   Val(applied.angA) = VecInvert(Val(applied.angB))

\* A resolve with friction whose two angular impulses are equal and not
\* zero, so not negations of each other.
C6_Witness ==
    /\ lastOp = "Contact.resolve"
    /\ contact.tangentImpulse1 # 0
    /\ Val(applied.angB) # ZeroVec
    /\ Val(applied.angA) = Val(applied.angB)

\* C10 as stated: a contact taken from the pool and reset is
\* indistinguishable from one newly constructed with the same arguments.
C10_ResetAsNew ==
    lastOp = "Contact.reset" =>
        contact = ContactConstruct(contact.bodyA, contact.bodyB, Val(contact.data))

(***************************************************************************)
(* Properties of the table, continued                                      *)
(***************************************************************************)
\* The three structures of the table agree in the current state.
TableAgrees ==
    /\ \A low \in Bodies, high \in Bodies, i \in 0 .. (ArrayLength(manifolds) + 1) :
           MatrixGet(collisionMatrix, low, high) = Some(i)
              <=> /\ i \in LiveIndices
                  /\ Val(manifolds[i]).lowID = low
                  /\ Val(manifolds[i]).highID = high
    /\ \A low \in Bodies, high \in Bodies :
           MatrixGet(collisionMatrix, low, high) # NULL =>
               Val(MatrixGet(collisionMatrix, low, high)) \in LiveIndices
    /\ { IDPool[j] : j \in DOMAIN IDPool } = DOMAIN manifolds \ LiveIndices
    /\ \A j \in DOMAIN IDPool, k \in DOMAIN IDPool : IDPool[j] = IDPool[k] => j = k

\* C15: after every registerContact and table update the collisionMatrix,
\* the manifolds array and the free-list _IDPool agree (an entry i for
\* (low, high) exactly when manifolds[i] is the live manifold of that pair;
\* the free-list holds exactly the empty indices, each once), a new
\* manifold takes its index from the free-list while that is non-empty,
\* and the array grows only when the free-list is empty.
C15_TableStructuresAgree ==
    [][ /\ TableAgrees'
        /\ ArrayLength(manifolds') > ArrayLength(manifolds) => IDPool = << >>
        /\ \A i \in DOMAIN manifolds' :
               /\ manifolds'[i] # NULL
               /\ i \notin LiveIndices
               /\ IDPool # << >>
               => /\ i = IDPool[Len(IDPool)]
                  /\ IDPool' = SubSeq(IDPool, 1, Len(IDPool) - 1) ]_vars

\* A manifold has just been created at index 1 while index 0 stays on the
\* free-list: the index was taken from the free-list.
C15_Witness ==
    /\ lastOp = "registerContact"
    /\ IDPool = << 0 >>
    /\ ArrayLength(manifolds) = 2
    /\ manifolds[1] # NULL

\* C19 as stated: every live Contact of a Manifold has the Manifold's
\* bodies in the Manifold's roles.
C19_ContactBodiesAreManifoldBodies ==
    \A i \in LiveIndices :
        LET m == Val(manifolds[i])
        IN  \A j \in Occupied(m) :
                /\ Val(m.contacts[j]).bodyA = m.bodyA
                /\ Val(m.contacts[j]).bodyB = m.bodyB

(***************************************************************************)
(* Properties of the solvers, continued                                    *)
(***************************************************************************)
\* No option set of DistanceOptions gives the period 0.2, so a Distance
\* whose period is 0.2 was configured with period 0 (or none), for which
\* init substituted the default.
ConfiguredWithPeriodZero == Val(distance).period = ONE \div 5

\* C11 as stated: for a Distance configured with period 0, update
\* completes and leaves the rigid solution: divisor = inverseMassA +
\* inverseMassB and velocityBias = dist / dt.
C11_ZeroPeriodIsRigid ==
    lastOp = "Distance.update" /\ ConfiguredWithPeriodZero =>
        LET d == Val(distance)
        IN  /\ distanceState = "updated"
            /\ d.divisor = InverseMass(d.a) + InverseMass(d.b)
            /\ \E dt \in Steps : d.velocityBias = FDiv(d.distance, dt)

\* C17: Distance.resolve with |distance| < minLength applies no impulse
\* and changes no field of the constraint; with |distance| >= minLength it
\* applies normal * lambda to the second body and the negation to the
\* first, and adds lambda to the accumulated impulse, changing nothing
\* else.
C17_SlackZoneNoOp ==
    [][ lastOp' = "Distance.resolve" =>
          LET d == Val(distance)
          IN  IF Abs(d.distance) < d.minLength
              THEN /\ applied' = NoCalls
                   /\ distance' = distance
              ELSE /\ applied'.linB = Some(VecScale(d.normal, DistanceLambda(d)))
                   /\ applied'.linA = Some(VecInvert(VecScale(d.normal, DistanceLambda(d))))
                   /\ Val(distance') =
                        [ d EXCEPT !.impulse = d.impulse + DistanceLambda(d) ] ]_vars

\* A resolve in the slack zone that has applied nothing although the
\* bodies move against the constraint.
C17_Witness ==
    /\ lastOp = "Distance.resolve"
    /\ Abs(Val(distance).distance) < Val(distance).minLength
    /\ DistanceLambda(Val(distance)) # 0
    /\ applied = NoCalls
    /\ Val(distance).impulse = 0

\* t1 and t2 are unit vectors perpendicular to each other and to n.
Orthonormal(n, t1, t2) ==
    /\ t1 # ZeroVec
    /\ t2 # ZeroVec
    /\ VecDot(t1, t1) = ONE
    /\ VecDot(t2, t2) = ONE
    /\ VecDot(t1, t2) = 0
    /\ VecDot(t1, n) = 0
    /\ VecDot(t2, n) = 0

\* C18 as stated: for every unit normal, the six axes included, the
\* tangent basis Contact.init builds is orthonormal.
C18_TangentBasisOrthonormal ==
    lastOp = "Contact.reset" =>
        Orthonormal(Val(contact.data).normal, contact.tangent1, contact.tangent2)

\* C12 as stated: Contact.update passes to bodyB a quarter of the sum of
\* the linear impulses the resolve calls since the previous update passed
\* to bodyB, to bodyA the negation, to each body a quarter of the sum of
\* the angular impulses resolve passed to that body, and leaves all six
\* accumulators zero.
C12_WarmStartQuarter ==
    [][ lastOp' = "Contact.update" =>
          /\ applied'.linB = Some(VecScale(resolved.linB, Quarter))
          /\ applied'.linA = Some(VecInvert(VecScale(resolved.linB, Quarter)))
          /\ applied'.angA = Some(VecScale(resolved.angA, Quarter))
          /\ applied'.angB = Some(VecScale(resolved.angB, Quarter))
          /\ contact'.normalImpulse = 0
          /\ contact'.tangentImpulse1 = 0
          /\ contact'.tangentImpulse2 = 0
          /\ contact'.impulse = ZeroVec
          /\ contact'.angImpulseA = ZeroVec
          /\ contact'.angImpulseB = ZeroVec ]_vars

\* C16 as stated: after Distance.update the accumulated impulse is 0;
\* after the resolve calls that follow it equals the sum of their lambdas;
\* and the next Distance.update applies that sum times the new direction
\* to the second body and the negation to the first, and resets the
\* accumulator.
C16_DistanceWarmStart ==
    [][ /\ lastOp' = "Distance.resolve" =>
               Val(distance').impulse = resolved'.lambda
        /\ lastOp' = "Distance.update" =>
               /\ distanceState' = "updated"
               /\ Val(distance').impulse = 0
               /\ applied'.linB =
                      Some(VecScale(Val(distance').normal, resolved.lambda))
               /\ applied'.linA =
                      Some(VecInvert(VecScale(Val(distance').normal, resolved.lambda))) ]_vars

(***************************************************************************)
(* Properties of the manifold, continued (SpecManifold)                    *)
(***************************************************************************)
\* The collision data registered in SpecManifold.
ManifoldData ==
    { CollisionData(1, 2, k) : k \in 0 .. ManifoldPoints } \cup { BetweenData(1, 2) }

\* The live contacts of m that contains would take for the data.
NearDuplicates(m, collisionData) ==
    { j \in Occupied(m) : NearDuplicate(Val(m.contacts[j]), collisionData) }

\* C13: addContact on a manifold holding 4 live contacts (registerContact
\* of data that has no near-duplicate among them) evicts exactly the
\* contact added least recently, writes the new contact into its slot,
\* which is the slot under the cursor, and advances the cursor by one
\* modulo 4, whatever additions and removals came before.
C13_EvictsLeastRecentlyAdded ==
    [][ /\ lastOp' = "registerContact"
        /\ ManifoldOf(manifolds, << 1, 2 >>) # NULL
        /\ Cardinality(Occupied(Val(ManifoldOf(manifolds, << 1, 2 >>)))) = 4
        => LET m == Val(ManifoldOf(manifolds, << 1, 2 >>))
               m2 == Val(ManifoldOf(manifolds', << 1, 2 >>))
               oldest == Head(recency[<< 1, 2 >>])
           IN  \A c \in ManifoldData :
                   NearDuplicates(m, c) = { } /\ RegisterContactData(1, 2, c)
                   => /\ oldest = m.lru
                      /\ \A j \in 0 .. 3 : j # oldest => m2.contacts[j] = m.contacts[j]
                      /\ m2.contacts[oldest] = Some(ContactOf(1, 2, c))
                      /\ m2.lru = (m.lru + 1) % 4
                      /\ m2.numContacts = 4 ]_vars

\* A full manifold after six or more additions: point 4 has replaced the
\* contact of slot 0 and point 0, evicted then, that of slot 1.
C13_Witness ==
    /\ lastOp = "registerContact"
    /\ ManifoldOf(manifolds, << 1, 2 >>) # NULL
    /\ LET m == Val(ManifoldOf(manifolds, << 1, 2 >>))
       IN  /\ Cardinality(Occupied(m)) = 4
           /\ m.lru = 2
           /\ recency[<< 1, 2 >>] = << 2, 3, 0, 1 >>
           /\ Val(m.contacts[0]).data = CollisionData(1, 2, 4)
           /\ Val(m.contacts[1]).data = CollisionData(1, 2, 0)

\* The previously live contacts of m that a registerContact leading to m2
\* removed: their slot is empty, or is the slot addContact wrote.
RemovedBy(m, m2) ==
    { j \in Occupied(m) : ArrayGet(m2.contacts, j) = NULL \/ j = AddContactIndex(m) }

\* C14 as stated: when registerContact on a pair with a manifold returns,
\* no previously live contact whose cached world point A or B lies within
\* THRESHOLD of the corresponding point of the new data remains.
C14_NoStaleDuplicateRemains ==
    [][ \A c \in ManifoldData :
          RegisterContactData(1, 2, c) /\ ManifoldOf(manifolds, << 1, 2 >>) # NULL
          => LET m == Val(ManifoldOf(manifolds, << 1, 2 >>))
                 m2 == Val(ManifoldOf(manifolds', << 1, 2 >>))
             IN  NearDuplicates(m, c) \subseteq RemovedBy(m, m2) ]_vars

\* C20 as stated: registerContact on an existing manifold never lowers
\* the number of live contacts and removes at most one previously live
\* contact; with fewer than 4 live contacts and no near-duplicate of the
\* new data, all of them survive and the number grows by one.
C20_NeverReducesLiveContacts ==
    [][ \A c \in ManifoldData :
          RegisterContactData(1, 2, c) /\ ManifoldOf(manifolds, << 1, 2 >>) # NULL
          => LET m == Val(ManifoldOf(manifolds, << 1, 2 >>))
                 m2 == Val(ManifoldOf(manifolds', << 1, 2 >>))
             IN  /\ Cardinality(Occupied(m2)) >= Cardinality(Occupied(m))
                 /\ Cardinality(RemovedBy(m, m2)) <= 1
                 /\ Cardinality(Occupied(m)) < 4 /\ NearDuplicates(m, c) = { }
                    => /\ RemovedBy(m, m2) = { }
                       /\ Cardinality(Occupied(m2)) = Cardinality(Occupied(m)) + 1 ]_vars

(***************************************************************************)
(* Conservation of the pooled objects                                      *)
(***************************************************************************)
\* How often the pool of the type holds object id.
TimesFree(type, id) ==
    Cardinality({ j \in 1 .. Len(pool.free[type]) : pool.free[type][j] = id })

\* The table indices whose slot refers to Manifold object m.
IndicesOf(m) ==
    { i \in DOMAIN pool.manifolds :
        pool.manifolds[i] # NULL /\ Val(pool.manifolds[i]) = m }

\* The places (Manifold object, slot) whose contacts array entry refers to
\* Contact object c.
SlotsOf(c) ==
    { ms \in (1 .. Len(pool.contacts)) \X (0 .. 3) :
        pool.contacts[ms[1]][ms[2] + 1] = c }

\* The Contact objects whose data field refers to CollisionData object d.
OwnersOf(d) == { c \in 1 .. Len(pool.data) : pool.data[c] = d }

\* The objects the observer follows are the objects of the table: a slot
\* of table.manifolds refers to a Manifold object exactly where the table
\* has a manifold, and a slot of its contacts array refers to a Contact
\* object exactly where the manifold has a contact.
ObjectsFollowTable ==
    /\ DOMAIN pool.manifolds = DOMAIN manifolds
    /\ \A i \in DOMAIN manifolds :
         /\ (pool.manifolds[i] = NULL) <=> (manifolds[i] = NULL)
         /\ manifolds[i] # NULL =>
              \A j \in 0 .. 3 :
                (pool.contacts[Val(pool.manifolds[i])][j + 1] # 0)
                    <=> (ArrayGet(Val(manifolds[i]).contacts, j) # NULL)

\* Every Contact obtained from the pool is live in exactly one slot of
\* exactly one Manifold of the table, is not in the pool and owns a
\* CollisionData, or is in no slot, is in the pool exactly once and owns
\* none.
ContactsConserved ==
    \A c \in 1 .. pool.made["Contact"] :
       \/ /\ Cardinality(SlotsOf(c)) = 1
          /\ \A ms \in SlotsOf(c) : Cardinality(IndicesOf(ms[1])) = 1
          /\ TimesFree("Contact", c) = 0
          /\ pool.data[c] # 0
       \/ /\ SlotsOf(c) = { }
          /\ TimesFree("Contact", c) = 1
          /\ pool.data[c] = 0

\* Every CollisionData is owned by exactly one Contact and not in the pool,
\* or owned by none and in the pool exactly once.
DataConserved ==
    \A d \in 1 .. pool.made["CollisionData"] :
       \/ Cardinality(OwnersOf(d)) = 1 /\ TimesFree("CollisionData", d) = 0
       \/ OwnersOf(d) = { } /\ TimesFree("CollisionData", d) = 1

\* Every Manifold is at exactly one index of the table and not in the
\* pool, or in the pool exactly once, at no index of the table and without
\* a contact in any slot; and every collisionMatrix entry leads to an index
\* of the table that holds a Manifold.
ManifoldsConserved ==
    /\ \A m \in 1 .. pool.made["Manifold"] :
          \/ Cardinality(IndicesOf(m)) = 1 /\ TimesFree("Manifold", m) = 0
          \/ /\ IndicesOf(m) = { }
             /\ TimesFree("Manifold", m) = 1
             /\ \A j \in 0 .. 3 : pool.contacts[m][j + 1] = 0
    /\ \A p \in Pairs :
          MatrixGet(collisionMatrix, p[1], p[2]) # NULL =>
             ArrayGet(pool.manifolds, Val(MatrixGet(collisionMatrix, p[1], p[2]))) # NULL

\* C21: across any sequence of registerContact and table update calls,
\* every Contact obtained from the pool is either live in exactly one slot
\* of exactly one Manifold of the table or has been freed exactly once,
\* together with its CollisionData, also freed exactly once; no Contact and
\* no Manifold is in the pool twice; and a Manifold in the pool holds no
\* live contact and is referred to by no table slot and no collisionMatrix
\* entry.
C21_PooledObjectsConserved ==
    /\ ObjectsFollowTable
    /\ ContactsConserved
    /\ DataConserved
    /\ ManifoldsConserved

\* The table update has just removed a manifold: its Manifold object and at
\* least two Contact and CollisionData objects are in the pools, while the
\* manifold of the other pair stays in the table with a live contact.
C21_Witness ==
    /\ lastOp = "update"
    /\ events # << >>
    /\ Len(pool.free["Manifold"]) = 1
    /\ Len(pool.free["Contact"]) >= 2
    /\ Len(pool.free["CollisionData"]) >= 2
    /\ \E i \in DOMAIN manifolds :
         manifolds[i] # NULL /\ Val(manifolds[i]).numContacts >= 1

=============================================================================
